---- MODULE Spec2Model ----
(***************************************************************************)
(* Model of utility.c: send one ICMPv4 Echo Request and print the MAC      *)
(* address of the frame that carried the Echo Reply.                       *)
(*                                                                         *)
(* Byte buffers are sequences of integers 0..255; the byte at C offset o   *)
(* is element o+1.  Times are in milliseconds.                             *)
(***************************************************************************)
EXTENDS Integers, Sequences, FiniteSets, TLC

VARIABLES
    bigEndian,   \* byte order of the build (TRUE: big-endian host)
    stack_fill,  \* value found in uninitialised stack bytes (buf, mac)
    argc,        \* main's argc
    euid,        \* result of geteuid()
    addr_ok,     \* inet_pton(AF_INET, argv[1], ..) == 1
    pc,          \* position in main / wait_reply
    pid16,       \* (uint16_t)getpid()
    seq_in,      \* sequence number given to build_icmp_echo
    now,         \* time(NULL) read by build_icmp_echo: the 8 base-256 digits
                 \* of the time_t, least significant first
    icmp_pkt,    \* uint8_t icmp_pkt[64]
    verify,      \* csum16 re-run over the finished packet (-1: not run)
    s_icmp,      \* raw ICMP socket: "unopened", "open", "closed", "bad_close"
    s_pkt,       \* AF_PACKET socket, same values
    sent,        \* number of sendto() calls made
    send_ok,     \* the sendto() call wrote the whole packet
    buf,         \* wait_reply's buf[2048]: the prefix written by recv so far
    n,           \* result of the last recv()
    frame,       \* the frame the last recv() delivered (<<>>: none)
    icmp_read,   \* the last recv'd frame had its ICMP fields compared
    nframes,     \* number of times poll() reported the socket readable
    sincePoll,   \* ms since the current poll() call started
    elapsed,     \* ms since wait_reply was entered
    ret,         \* wait_reply's return value (2: has not returned)
    cause,       \* why wait_reply returned: "none","match","timeout","error"
    mac,         \* main's uint8_t mac[ETH_ALEN]
    out,         \* what print_mac wrote to stdout (<<>>: nothing)
    exit_code    \* main's return value (-1: still running)

vars == <<bigEndian, stack_fill, argc, euid, addr_ok, pc, pid16, seq_in, now,
          icmp_pkt, verify, s_icmp, s_pkt, sent, send_ok, buf, n, frame,
          icmp_read, nframes, sincePoll, elapsed, ret, cause, mac, out,
          exit_code>>

(***************************************************************************)
(* Bounds of the model                                                     *)
(***************************************************************************)
MaxFrames == 2      \* frames delivered to one wait_reply call
TickMs == 1000      \* granularity of the passage of time

(***************************************************************************)
(* Program and platform constants                                          *)
(***************************************************************************)
EXIT_SUCCESS == 0
EXIT_FAILURE == 1
ICMP_ECHO == 8
ICMP_ECHOREPLY == 0
IPPROTO_ICMP == 1
IPPROTO_UDP == 17
ETH_P_IP == 2048
ETH_P_ARP == 2054
ETH_ALEN == 6
sizeof_ether_header == 14
sizeof_iphdr == 20
sizeof_icmphdr == 8
sizeof_time_t == 8
sizeof_buf == 2048
pkt_len == 64
tout_ms == 3000
main_seq == 1

Min(a, b) == IF a < b THEN a ELSE b
Max(a, b) == IF a > b THEN a ELSE b

Zeros(k) == [i \in 1..k |-> 0]

(***************************************************************************)
(* Byte order                                                              *)
(***************************************************************************)
\* htons / ntohs: swap the two bytes on a little-endian host
htons(x) == IF bigEndian THEN x ELSE (x % 256) * 256 + (x \div 256)
ntohs(x) == htons(x)

\* native 16-bit load  *(uint16_t *)(b + off)
Load16(b, off) ==
    IF bigEndian THEN b[off + 1] * 256 + b[off + 2]
                 ELSE b[off + 1] + 256 * b[off + 2]

\* native 16-bit store: the two bytes of x in memory order
Store16(x) ==
    IF bigEndian THEN <<x \div 256, x % 256>>
                 ELSE <<x % 256, x \div 256>>

Reverse(s) == [i \in 1..Len(s) |-> s[Len(s) + 1 - i]]

\* the object representation of an integer given by its base-256 digits,
\* least significant first
NativeBytes(digits) == IF bigEndian THEN Reverse(digits) ELSE digits

(***************************************************************************)
(* csum16                                                                  *)
(***************************************************************************)
\* first loop and the odd trailing byte: the 32-bit sum.  A uint32_t cannot
\* wrap here: len / 2 + 1 terms below 2^16 stay below 2^32 for len < 2^17,
\* and the only buffer summed has 64 bytes.
RECURSIVE csum16_sum(_, _, _, _)
csum16_sum(data, off, len, sum) ==
    IF len > 1 THEN csum16_sum(data, off + 2, len - 2, sum + Load16(data, off))
    ELSE IF len # 0 THEN sum + data[off + 1]
    ELSE sum

\* second loop: while (sum >> 16) sum = (sum & 0xFFFF) + (sum >> 16)
RECURSIVE csum16_fold(_)
csum16_fold(sum) ==
    IF sum \div 65536 # 0 THEN csum16_fold((sum % 65536) + (sum \div 65536))
    ELSE sum

\* the carry-folded accumulator, before complementing
csum16_acc(data, len) == csum16_fold(csum16_sum(data, 0, len, 0))

\* (uint16_t)~sum
csum16(data, len) == 65535 - (csum16_acc(data, len) % 65536)

(***************************************************************************)
(* build_icmp_echo                                                         *)
(***************************************************************************)
\* header with checksum = 0, then the payload: time_t now, rest zero
icmp_unsummed(id, seq, t) ==
    <<ICMP_ECHO, 0, 0, 0>> \o Store16(htons(id)) \o Store16(htons(seq))
    \o SubSeq(NativeBytes(t), 1, Min(pkt_len - sizeof_icmphdr, sizeof_time_t))
    \o Zeros(pkt_len - sizeof_icmphdr
             - Min(pkt_len - sizeof_icmphdr, sizeof_time_t))

\* variant: the checksum covers only the 8-byte header
build_icmp_echo_hdr_only(id, seq, t) ==
    LET p == icmp_unsummed(id, seq, t)
        c == Store16(csum16(p, sizeof_icmphdr))
    IN  [i \in 1..pkt_len |-> IF i = 3 THEN c[1] ELSE IF i = 4 THEN c[2] ELSE p[i]]

build_icmp_echo(id, seq, t) ==
    LET p == icmp_unsummed(id, seq, t)
        c == Store16(csum16(p, pkt_len))
    IN  [i \in 1..pkt_len |-> IF i = 3 THEN c[1] ELSE IF i = 4 THEN c[2] ELSE p[i]]

(***************************************************************************)
(* Captured frames                                                         *)
(***************************************************************************)
MAC_A == <<170, 187, 204, 221, 238, 255>>
MAC_B == <<2, 0, 94, 16, 32, 48>>
MAC_LOCAL == <<2, 66, 172, 17, 0, 2>>

\* an Ethernet frame as it is on the wire, cut (or zero-padded) to len bytes
MkFrame(p) ==
    LET full == MAC_LOCAL \o p.src
                \o <<p.et \div 256, p.et % 256>>
                \o <<64 + p.ihl>> \o Zeros(8) \o <<p.proto>>
                \o Zeros(p.ihl * 4 - 10)
                \o <<p.type, p.code, 0, 0,
                     p.id \div 256, p.id % 256, p.seq \div 256, p.seq % 256>>
    IN  SubSeq(full \o Zeros(Max(0, p.len - Len(full))), 1, p.len)

\* the reply to the request of this run, IPv4 header without options
ReplyParams(id, seq) ==
    [len |-> 42, src |-> MAC_A, et |-> ETH_P_IP, ihl |-> 5,
     proto |-> IPPROTO_ICMP, type |-> ICMP_ECHOREPLY, code |-> 0,
     id |-> id, seq |-> seq]

\* the same reply behind an IPv4 header with one option word
ReplyParams6(id, seq) ==
    [ReplyParams(id, seq) EXCEPT !.ihl = 6, !.len = 46, !.src = MAC_B]

\* what the capture socket can deliver: the reply, the reply with one field
\* changed, and frames with IPv4 options (whole, cut short, other protocol)
FrameParams(id, seq) ==
    LET v  == ReplyParams(id, seq)
        v6 == ReplyParams6(id, seq)
    IN  { v,
          [v EXCEPT !.len = 41],
          [v EXCEPT !.et = ETH_P_ARP],
          [v EXCEPT !.ihl = 4],
          [v EXCEPT !.proto = IPPROTO_UDP],
          [v EXCEPT !.type = ICMP_ECHO],
          [v EXCEPT !.code = 1],
          [v EXCEPT !.id = (id + 1) % 65536],
          [v EXCEPT !.seq = (seq + 1) % 65536],
          v6,
          [v6 EXCEPT !.len = 42],
          [v6 EXCEPT !.proto = IPPROTO_UDP] }

Frames(id, seq) == { MkFrame(p) : p \in FrameParams(id, seq) }

(***************************************************************************)
(* wait_reply: one iteration of the loop body                              *)
(***************************************************************************)
\* buf[2048] as the code reads it: bytes no recv has written are whatever
\* the stack held
BufView(b) == [i \in 1..sizeof_buf |-> IF i <= Len(b) THEN b[i] ELSE stack_fill]

\* recv(psock, buf, sizeof(buf), 0) of frame f: overwrites the first n bytes
recv_n(f) == Min(Len(f), sizeof_buf)
recv_buf(b, f) == SubSeq(f, 1, recv_n(f)) \o SubSeq(b, recv_n(f) + 1, Len(b))

\* ip->ihl * 4
ip_hl(v) == (v[sizeof_ether_header + 1] % 16) * 4

\* the checks that come before the ICMP header is looked at
frame_is_ipv4_icmp(v, got) ==
    /\ ~(got < sizeof_ether_header + sizeof_iphdr + sizeof_icmphdr)
    /\ ~(ntohs(Load16(v, 12)) # ETH_P_IP)
    /\ ~(ip_hl(v) < 20)
    /\ ~(v[sizeof_ether_header + 9 + 1] # IPPROTO_ICMP)

\* all checks of the loop body: TRUE iff no `continue' is taken
frame_matches(v, got, id, seq) ==
    /\ frame_is_ipv4_icmp(v, got)
    /\ LET o == sizeof_ether_header + ip_hl(v)
       IN  /\ ~(v[o + 1] # ICMP_ECHOREPLY \/ v[o + 2] # 0)
           /\ ~(Load16(v, o + 4) # htons(id))
           /\ ~(Load16(v, o + 6) # htons(seq))

\* variant: copies eth->ether_dhost
ether_dhost(v) == SubSeq(v, 1, ETH_ALEN)

\* eth->ether_shost
ether_shost(v) == SubSeq(v, ETH_ALEN + 1, 2 * ETH_ALEN)

\* variant: the memcpy runs for every frame that was received
mac_out_always(v, matched, mac_out) == ether_shost(v)

\* mac_out after the iteration: memcpy only once every check has passed
mac_out_after(v, matched, mac_out) ==
    IF matched THEN ether_shost(v) ELSE mac_out

\* variant: poll is called with no timeout budget
poll_timeout_zero(t) == 0

\* the timeout handed to each poll() call
poll_timeout(t) == t

(***************************************************************************)
(* print_mac                                                               *)
(***************************************************************************)
HexDigit == <<"0", "1", "2", "3", "4", "5", "6", "7",
              "8", "9", "a", "b", "c", "d", "e", "f">>

\* "%02x:%02x:%02x:%02x:%02x:%02x\n" as the list of its characters
RECURSIVE print_mac_from(_, _)
print_mac_from(m, i) ==
    <<HexDigit[(m[i] \div 16) + 1], HexDigit[(m[i] % 16) + 1]>>
    \o (IF i < ETH_ALEN THEN <<":">> \o print_mac_from(m, i + 1) ELSE <<"\n">>)

print_mac(m) == print_mac_from(m, 1)

(***************************************************************************)
(* Inputs of a run                                                         *)
(***************************************************************************)
Argcs == {1, 2, 3}
Euids == {0, 1000}
StackFills == {0, 255}
Pids == {4660, 511}
MainNows == {<<0, 241, 83, 101, 0, 0, 0, 0>>}
SendResults == {-1, 32, pkt_len}

\* inputs of build_icmp_echo when it is exercised on its own
Ids == {0, 1, 4660, 65280, 65535}
Seqs == {0, 1, 65535}
Nows == { <<0, 0, 0, 0, 0, 0, 0, 0>>,
          <<0, 241, 83, 101, 0, 0, 0, 0>>,
          <<255, 255, 255, 255, 0, 0, 0, 0>>,
          <<255, 255, 255, 255, 255, 255, 255, 127>> }

(***************************************************************************)
(* main                                                                    *)
(***************************************************************************)
\* close(fd)
close(s) == IF s = "open" THEN "closed" ELSE "bad_close"

\* variant: accepts any argument count of two or more
argc_ok_atleast(a) == a >= 2

\* the argument count main accepts
argc_ok(a) == ~(a # 2)

\* variant: returns without closing the ICMP socket
s_icmp_on_pkt_fail_leak(s) == s

\* the ICMP socket when open_packet_socket failed
s_icmp_on_pkt_fail(s) == close(s)

\* variant: the request is sent before the capture socket is opened
pc_after_socket_icmp_send == "send_icmp"

\* the statement that follows the successful socket(AF_INET, ..) call
pc_after_socket_icmp == "open_packet_socket"

Init ==
    /\ bigEndian \in BOOLEAN
    /\ stack_fill \in StackFills
    /\ argc \in Argcs
    /\ euid \in Euids
    /\ addr_ok \in BOOLEAN
    /\ pc = "start"
    /\ pid16 = 0
    /\ seq_in = 0
    /\ now = <<>>
    /\ icmp_pkt = <<>>
    /\ verify = -1
    /\ s_icmp = "unopened"
    /\ s_pkt = "unopened"
    /\ sent = 0
    /\ send_ok = FALSE
    /\ buf = <<>>
    /\ n = 0
    /\ frame = <<>>
    /\ icmp_read = FALSE
    /\ nframes = 0
    /\ sincePoll = 0
    /\ elapsed = 0
    /\ ret = 2
    /\ cause = "none"
    /\ mac = [i \in 1..ETH_ALEN |-> stack_fill]
    /\ out = <<>>
    /\ exit_code = -1

env_vars == <<bigEndian, stack_fill, argc, euid, addr_ok>>
pkt_vars == <<pid16, seq_in, now, icmp_pkt, verify>>
sock_vars == <<s_icmp, s_pkt, sent, send_ok>>
wait_vars == <<buf, n, frame, icmp_read, nframes, sincePoll, elapsed, ret,
               cause, mac>>

\* if (argc != 2) return EXIT_FAILURE
CheckArgc ==
    /\ pc = "start"
    /\ IF argc_ok(argc)
         THEN pc' = "geteuid" /\ exit_code' = exit_code
         ELSE pc' = "done" /\ exit_code' = EXIT_FAILURE
    /\ UNCHANGED <<env_vars, pkt_vars, sock_vars, wait_vars, out>>

\* if (geteuid() != 0) return EXIT_FAILURE
CheckEuid ==
    /\ pc = "geteuid"
    /\ IF euid # 0
         THEN pc' = "done" /\ exit_code' = EXIT_FAILURE
         ELSE pc' = "inet_pton" /\ exit_code' = exit_code
    /\ UNCHANGED <<env_vars, pkt_vars, sock_vars, wait_vars, out>>

\* if (inet_pton(AF_INET, argv[1], &dst_ip) != 1) return EXIT_FAILURE
ParseAddr ==
    /\ pc = "inet_pton"
    /\ IF ~addr_ok
         THEN pc' = "done" /\ exit_code' = EXIT_FAILURE
         ELSE pc' = "build_icmp_echo" /\ exit_code' = exit_code
    /\ UNCHANGED <<env_vars, pkt_vars, sock_vars, wait_vars, out>>

\* pid16 = (uint16_t)getpid(); build_icmp_echo(icmp_pkt, pid16, 1).  buf is
\* main's array, never NULL, so build_icmp_echo returns pkt_len, never -1.
BuildPacket ==
    /\ pc = "build_icmp_echo"
    /\ \E p \in Pids, t \in MainNows :
          /\ pid16' = p
          /\ seq_in' = main_seq
          /\ now' = t
          /\ icmp_pkt' = build_icmp_echo(p, main_seq, t)
    /\ pc' = "socket_icmp"
    /\ UNCHANGED <<env_vars, verify, sock_vars, wait_vars, out, exit_code>>

\* s_icmp = socket(AF_INET, SOCK_RAW, IPPROTO_ICMP)
SocketIcmp ==
    /\ pc = "socket_icmp"
    /\ \E ok \in BOOLEAN :
          IF ok THEN /\ s_icmp' = "open"
                     /\ pc' = pc_after_socket_icmp
                     /\ exit_code' = exit_code
                ELSE /\ s_icmp' = s_icmp
                     /\ pc' = "done"
                     /\ exit_code' = EXIT_FAILURE
    /\ UNCHANGED <<env_vars, pkt_vars, s_pkt, sent, send_ok, wait_vars, out>>

\* s_pkt = open_packet_socket(); on failure close(s_icmp) and return
OpenPacketSocket ==
    /\ pc = "open_packet_socket"
    /\ \E ok \in BOOLEAN :
          IF ok THEN /\ s_pkt' = "open"
                     /\ s_icmp' = s_icmp
                     /\ pc' = "send_icmp"
                     /\ exit_code' = exit_code
                ELSE /\ s_pkt' = s_pkt
                     /\ s_icmp' = s_icmp_on_pkt_fail(s_icmp)
                     /\ pc' = "done"
                     /\ exit_code' = EXIT_FAILURE
    /\ UNCHANGED <<env_vars, pkt_vars, sent, send_ok, wait_vars, out>>

\* send_icmp(s_icmp, dst_ip, icmp_pkt, sizeof(icmp_pkt)); w is what sendto
\* returned.  On success wait_reply is entered.
SendIcmp ==
    /\ pc = "send_icmp"
    /\ sent' = sent + 1
    /\ \E w \in SendResults :
          IF w # Len(icmp_pkt)
            THEN /\ send_ok' = FALSE
                 /\ s_icmp' = close(s_icmp)
                 /\ s_pkt' = close(s_pkt)
                 /\ pc' = "done"
                 /\ exit_code' = EXIT_FAILURE
            ELSE /\ send_ok' = TRUE
                 /\ UNCHANGED <<s_icmp, s_pkt, exit_code>>
                 /\ pc' = "poll"
    /\ UNCHANGED <<env_vars, pkt_vars, wait_vars, out>>

(***************************************************************************)
(* wait_reply(s_pkt, pid16, 1, 3000, mac)                                  *)
(***************************************************************************)
\* time passes while poll() blocks
Tick ==
    /\ pc = "poll"
    /\ sincePoll < poll_timeout(tout_ms)
    /\ LET d == Min(TickMs, poll_timeout(tout_ms) - sincePoll)
       IN  /\ sincePoll' = sincePoll + d
           /\ elapsed' = elapsed + d
    /\ UNCHANGED <<env_vars, pkt_vars, sock_vars, pc, buf, n, frame, icmp_read,
                   nframes, ret, cause, mac, out, exit_code>>

\* poll() > 0: a frame is ready on the capture socket
PollReady ==
    /\ pc = "poll"
    /\ s_pkt = "open"
    /\ nframes < MaxFrames
    /\ nframes' = nframes + 1
    /\ pc' = "recv"
    /\ UNCHANGED <<env_vars, pkt_vars, sock_vars, buf, n, frame, icmp_read,
                   sincePoll, elapsed, ret, cause, mac, out, exit_code>>

\* poll() == 0: nothing arrived within the timeout of this call; return -1
PollTimeout ==
    /\ pc = "poll"
    /\ sincePoll >= poll_timeout(tout_ms)
    /\ ret' = -1
    /\ cause' = "timeout"
    /\ pc' = "report"
    /\ UNCHANGED <<env_vars, pkt_vars, sock_vars, buf, n, frame, icmp_read,
                   nframes, sincePoll, elapsed, mac, out, exit_code>>

\* poll() < 0: the wait primitive failed; return -1
PollError ==
    /\ pc = "poll"
    /\ ret' = -1
    /\ cause' = "error"
    /\ pc' = "report"
    /\ UNCHANGED <<env_vars, pkt_vars, sock_vars, buf, n, frame, icmp_read,
                   nframes, sincePoll, elapsed, mac, out, exit_code>>

\* the loop body for a frame f: recv, the checks, memcpy and return 0 on a
\* match, otherwise continue with a new poll() call
RecvFrame ==
    /\ pc = "recv"
    /\ \E f \in Frames(pid16, main_seq) :
          LET b2  == recv_buf(buf, f)
              v   == BufView(b2)
              got == recv_n(f)
              m   == frame_matches(v, got, pid16, main_seq)
          IN  /\ buf' = b2
              /\ n' = got
              /\ frame' = f
              /\ icmp_read' = frame_is_ipv4_icmp(v, got)
              /\ mac' = mac_out_after(v, m, mac)
              /\ IF m THEN /\ ret' = 0
                           /\ cause' = "match"
                           /\ pc' = "report"
                           /\ sincePoll' = sincePoll
                      ELSE /\ UNCHANGED <<ret, cause>>
                           /\ pc' = "poll"
                           /\ sincePoll' = 0
    /\ UNCHANGED <<env_vars, pkt_vars, sock_vars, nframes, elapsed, out,
                   exit_code>>

\* the loop body when recv() fails: n = -1, buf untouched, continue
RecvError ==
    /\ pc = "recv"
    /\ n' = -1
    /\ frame' = <<>>
    /\ icmp_read' = frame_is_ipv4_icmp(BufView(buf), -1)
    /\ pc' = "poll"
    /\ sincePoll' = 0
    /\ UNCHANGED <<env_vars, pkt_vars, sock_vars, buf, nframes, elapsed, ret,
                   cause, mac, out, exit_code>>

\* main after wait_reply: print_mac on 0, the timeout message otherwise;
\* close both sockets and return
Report ==
    /\ pc = "report"
    /\ IF ret = 0
         THEN out' = print_mac(mac) /\ exit_code' = EXIT_SUCCESS
         ELSE out' = out /\ exit_code' = EXIT_FAILURE
    /\ s_icmp' = close(s_icmp)
    /\ s_pkt' = close(s_pkt)
    /\ pc' = "done"
    /\ UNCHANGED <<env_vars, pkt_vars, sent, send_ok, wait_vars>>

Next ==
    \/ CheckArgc
    \/ CheckEuid
    \/ ParseAddr
    \/ BuildPacket
    \/ SocketIcmp
    \/ OpenPacketSocket
    \/ SendIcmp
    \/ Tick
    \/ PollReady
    \/ PollTimeout
    \/ PollError
    \/ RecvFrame
    \/ RecvError
    \/ Report

Spec == Init /\ [][Next]_vars

\* time does pass, and a poll() call whose timeout has run out returns
FairSpec == Spec /\ WF_vars(Tick) /\ WF_vars(PollTimeout) /\ WF_vars(Report)

(***************************************************************************)
(* build_icmp_echo and csum16 on their own                                 *)
(***************************************************************************)
InitBuild ==
    /\ bigEndian \in BOOLEAN
    /\ stack_fill = 0
    /\ argc = 2
    /\ euid = 0
    /\ addr_ok = TRUE
    /\ pc = "b_start"
    /\ pid16 = 0
    /\ seq_in = 0
    /\ now = <<>>
    /\ icmp_pkt = <<>>
    /\ verify = -1
    /\ s_icmp = "unopened"
    /\ s_pkt = "unopened"
    /\ sent = 0
    /\ send_ok = FALSE
    /\ buf = <<>>
    /\ n = 0
    /\ frame = <<>>
    /\ icmp_read = FALSE
    /\ nframes = 0
    /\ sincePoll = 0
    /\ elapsed = 0
    /\ ret = 2
    /\ cause = "none"
    /\ mac = [i \in 1..ETH_ALEN |-> 0]
    /\ out = <<>>
    /\ exit_code = -1

\* build_icmp_echo(buf, id, seq) at time t
BuildOnly ==
    /\ pc = "b_start"
    /\ \E id \in Ids, s \in Seqs, t \in Nows :
          /\ pid16' = id
          /\ seq_in' = s
          /\ now' = t
          /\ icmp_pkt' = build_icmp_echo(id, s, t)
    /\ pc' = "b_built"
    /\ UNCHANGED <<env_vars, verify, sock_vars, wait_vars, out, exit_code>>

\* csum16(buf, 64) over the packet as built, checksum field included
VerifyOnly ==
    /\ pc = "b_built"
    /\ verify' = csum16(icmp_pkt, pkt_len)
    /\ pc' = "b_verified"
    /\ UNCHANGED <<env_vars, pid16, seq_in, now, icmp_pkt, sock_vars,
                   wait_vars, out, exit_code>>

NextBuild == BuildOnly \/ VerifyOnly

SpecBuild == InitBuild /\ [][NextBuild]_vars

(***************************************************************************)
(* Properties                                                              *)
(***************************************************************************)
\* a frame's own bytes, in wire order; -1 where the frame has no such byte
FrameByte(f, off) == IF off < Len(f) THEN f[off + 1] ELSE -1
FrameWord(f, off) ==
    IF off + 1 < Len(f) THEN f[off + 1] * 256 + f[off + 2] ELSE -1
FrameIpHl(f) == (FrameByte(f, sizeof_ether_header) % 16) * 4
FrameIcmpOff(f) == sizeof_ether_header + FrameIpHl(f)

\* the seven checks, read off the frame itself
PassesAllChecks(f) ==
    /\ Len(f) >= sizeof_ether_header + sizeof_iphdr + sizeof_icmphdr
    /\ FrameWord(f, 12) = ETH_P_IP
    /\ FrameIpHl(f) >= 20
    /\ FrameByte(f, sizeof_ether_header + 9) = IPPROTO_ICMP
    /\ FrameByte(f, FrameIcmpOff(f)) = ICMP_ECHOREPLY
    /\ FrameByte(f, FrameIcmpOff(f) + 1) = 0
    /\ FrameWord(f, FrameIcmpOff(f) + 4) = pid16
    /\ FrameWord(f, FrameIcmpOff(f) + 6) = main_seq

InWait == pc \in {"poll", "recv"}
UsageOrPrivilegeError == argc # 2 \/ euid # 0 \/ ~addr_ok
MacUntouched == mac = [i \in 1..ETH_ALEN |-> stack_fill]

\* C1: wait_reply returns success only on a frame that passes all seven
\* checks (length, Ethernet type, IPv4 header length, protocol, ICMP type,
\* ICMP code, id and sequence); a frame failing any one is never a match.
C1_OnlyFramesPassingAllChecksMatch ==
    ret = 0 => PassesAllChecks(frame)

\* C2: when the frame just received is a valid reply, possibly after
\* rejected frames, the loop has ended, wait_reply returned 0 and the output
\* buffer holds exactly that frame's Ethernet source MAC.
C2_ValidReplyYieldsItsSourceMac ==
    (frame # <<>> /\ PassesAllChecks(frame)) =>
        /\ pc \in {"report", "done"}
        /\ ret = 0
        /\ mac = SubSeq(frame, 7, 12)

C2_Witness ==
    /\ nframes = 2
    /\ ret = 0
    /\ PassesAllChecks(frame)
    /\ mac = SubSeq(frame, 7, 12)
    /\ mac = MAC_B

\* C3: the ICMP fields of a frame are compared only if the frame is at
\* least 14 + ihl * 4 + 8 bytes long, so the compared bytes lie within the
\* bytes received for that frame.
C3_IcmpFieldsWithinReceivedBytes ==
    icmp_read =>
        n >= sizeof_ether_header + ip_hl(BufView(buf)) + sizeof_icmphdr

\* C4: the timeout is an overall deadline: wait_reply is never still
\* waiting once more than tout_ms have passed since it was entered, however
\* many frames it rejected.
C4_OverallDeadline ==
    InWait => elapsed <= tout_ms

\* C5 as stated: with no frame delivered, wait_reply never returns -1
\* before tout_ms have elapsed.
C5_NeverReturnsBeforeTimeout ==
    (ret = -1 /\ nframes = 0) => elapsed >= tout_ms

\* C5 as amended: with no frame delivered, wait_reply does return -1; it
\* returns before tout_ms have elapsed only when poll() itself failed.
C5_TimeoutUnlessPollFails ==
    /\ []((ret = -1 /\ nframes = 0 /\ cause # "error") => elapsed >= tout_ms)
    /\ ((pc = "poll" /\ nframes = 0) ~> (nframes > 0 \/ ret = -1))

C5_Witness ==
    /\ pc = "done"
    /\ ret = -1
    /\ cause = "timeout"
    /\ nframes = 0
    /\ elapsed = tout_ms

\* C6: when main has returned, every socket that was opened is closed, and
\* no descriptor is ever closed twice or closed without having been opened.
C6_SocketsReleasedOnEveryExit ==
    /\ s_icmp # "bad_close"
    /\ s_pkt # "bad_close"
    /\ pc = "done" => /\ s_icmp \in {"unopened", "closed"}
                      /\ s_pkt \in {"unopened", "closed"}
                      /\ exit_code \in {EXIT_SUCCESS, EXIT_FAILURE}

C6_Witness ==
    /\ pc = "done"
    /\ s_icmp = "closed"
    /\ s_pkt = "unopened"
    /\ sent = 0

\* C7: on a usage error (argc other than 2, unparsable address) or a
\* privilege error (euid not 0) no socket is ever opened, no packet is sent,
\* and main returns a nonzero code.
C7_UsageAndPrivilegeErrorsOpenNothing ==
    UsageOrPrivilegeError =>
        /\ s_icmp = "unopened"
        /\ s_pkt = "unopened"
        /\ sent = 0
        /\ pc = "done" => exit_code = EXIT_FAILURE

C7_Witness ==
    /\ pc = "done"
    /\ argc = 2
    /\ euid = 0
    /\ ~addr_ok
    /\ exit_code = EXIT_FAILURE

\* C8: the MAC buffer is written only on success: while wait_reply has not
\* returned 0 it still holds what it held at entry, and main prints a MAC
\* and returns EXIT_SUCCESS only when wait_reply returned 0.
C8_MacWrittenOnlyOnSuccess ==
    /\ ret # 0 => MacUntouched
    /\ (out # <<>> \/ exit_code = EXIT_SUCCESS) => ret = 0

C8_Witness ==
    /\ pc = "done"
    /\ ret = -1
    /\ nframes = 2
    /\ frame # <<>>
    /\ MacUntouched
    /\ out = <<>>

\* C9 as stated: csum16 over the built 64-byte packet, checksum embedded,
\* has a folded accumulator of 0x0000 and returns 0xFFFF.
C9_VerifyAccZeroReturnsFFFF ==
    pc = "b_verified" =>
        /\ csum16_acc(icmp_pkt, pkt_len) = 0
        /\ verify = 65535

\* C9 as amended: csum16 over the built 64-byte packet, checksum embedded,
\* has a folded accumulator of 0xFFFF and returns 0x0000.
C9_VerifyAccFFFFReturnsZero ==
    pc = "b_verified" =>
        /\ csum16_acc(icmp_pkt, pkt_len) = 65535
        /\ verify = 0

C9_Witness ==
    /\ pc = "b_verified"
    /\ pid16 = 65535
    /\ seq_in = 65535
    /\ now[1] = 255
    /\ verify = 0

\* C10: the capture socket is open before the Echo Request is sent, at most
\* one request is sent, and wait_reply runs (and frames are received) only
\* after that send succeeded, with the capture socket open.
C10_CaptureOpenBeforeSingleSend ==
    /\ sent <= 1
    /\ sent > 0 => s_pkt \in {"open", "closed"}
    /\ (InWait \/ pc = "report" \/ nframes > 0) => (sent = 1 /\ send_ok)
    /\ InWait => s_pkt = "open"

C10_Witness ==
    /\ pc = "recv"
    /\ sent = 1
    /\ send_ok
    /\ s_pkt = "open"
    /\ s_icmp = "open"

====
